---- MODULE Spec2Model ----
(***************************************************************************)
(* A model of cacache-rs-sync: a content-addressable on-disk cache with a  *)
(* key -> content index.  The content store (src/content/*.rs) and the     *)
(* facade (src/put.rs, src/get.rs, src/rm.rs, src/ls.rs) are translated    *)
(* from the source.  The index store (index::insert, index::find,          *)
(* index::delete) and content::path are not part of the source tree that   *)
(* was available and are modelled from the written specification.          *)
(*                                                                         *)
(* Idealisations:                                                          *)
(*  - a digest is an injective numeric code of the hashed bytes (the       *)
(*    hash functions are taken to be collision free);                      *)
(*  - a write through the file API stores the whole buffer;                *)
(*  - the wall clock never runs backwards.                                 *)
(***************************************************************************)
EXTENDS Integers, Sequences, FiniteSets, TLC

\* ------------------------------------------------------------ bounds
MaxLen == 2
MaxCalls == 3
NProcs == 3
MaxLines == 3

\* ------------------------------------------------------------ constants
MAX_MMAP_SIZE == 1048576

\* bytes a caller passes in; 0 is the byte a pre-sized temp file is filled with
Byte == {1}
Keys == {"a", "b"}
Algorithms == {"sha256", "sha512"}

\* Option<..> values that are absent
NoKey == "-"
NoSize == -1
NoTime == -1
NoAlgo == "default"
NoSri == {}

\* ------------------------------------------------------------ bytes and digests
Bytes == UNION {[1..n -> Byte] : n \in 0..MaxLen}

\* File::set_len on an empty file: n zero bytes
Zeros(n) == [i \in 1..n |-> 0]

\* an injective code of a byte string over {0, 1}: bijective base 2
RECURSIVE Code(_)
Code(b) == IF Len(b) = 0 THEN 0
           ELSE (Head(b) + 1) + 2 * Code(Tail(b))

Strength(a) == IF a = "sha512" THEN 3 ELSE IF a = "sha384" THEN 2 ELSE 1

\* the digest of `data` under algorithm `a`
Digest(a, data) == 4 * Code(data) + Strength(a)

\* ssri::Integrity: a set of (algorithm, digest) pairs
Hash(a, data) == [algorithm |-> a, digest |-> Digest(a, data)]
IntegrityOf(a, data) == {Hash(a, data)}

PickAlgorithm(sri) ==
    LET algos == {h.algorithm : h \in sri}
    IN  CHOOSE a \in algos : \A a2 \in algos : Strength(a) >= Strength(a2)

\* self.matches(other).is_some()
Matches(self, other) ==
    LET algo == PickAlgorithm(other)
    IN  \E h \in self : h.algorithm = algo /\ h \in other

\* sri.check(data).is_ok()
Check(sri, data) ==
    LET algo   == PickAlgorithm(sri)
        wanted == {h \in sri : h.algorithm = algo}
    IN  Matches(IntegrityOf(algo, data), wanted)

\* content::path::content_path: content-v2/<algo>/<hex of the strongest digest>
ContentPath(sri) ==
    LET algo == PickAlgorithm(sri)
        h    == CHOOSE x \in sri : x.algorithm = algo
    IN  <<algo, h.digest>>

\* ------------------------------------------------------------ state
VARIABLES
    content,   \* content-v2: content path -> bytes of the file at that path
    index,     \* index-v5: bucket -> sequence of lines of the bucket file
    opts,      \* the WriteOpts builder the caller is filling in
    w,         \* the streaming Writer handle held by the caller (or NoWriter)
    now,       \* the wall clock, in milliseconds
    ret,       \* what the last completed call returned
    calls,     \* number of calls made so far, the writer's write/commit aside
    hist,      \* the (key, descriptor) pairs successful writes have returned
    procs,     \* the racing one-shot writers: per process, where it is in
               \* put::write, its bytes, its content writer, whether its
               \* rename failed, which call's error its close returned,
               \* and what it returned
    rt,        \* per key: the bytes of the last successful write(key, bytes)
               \* not yet followed by a write/remove on the key, a
               \* remove_hash, a clear or an external modification
    rd,        \* the streaming Reader handle held by the caller (or NoReader)
    cp,        \* the copy call in progress: where it is in content::read::copy
    dst,       \* the destination file of the copy (or NoDst)
    tw         \* a pair of writers opened with the same options and fed the
               \* same buffers, one with the memory mapping and one without

vars == <<content, index, opts, w, now, ret, calls, hist, procs, rt, rd, cp, dst, tw>>

\* ------------------------------------------------------------ results
Ret(op, key, kind, sri, data, a, b) ==
    [op |-> op, key |-> key, kind |-> kind, sri |-> sri, data |-> data,
     a |-> a, b |-> b]

Out(kind, sri, data) == [kind |-> kind, sri |-> sri, data |-> data]

\* ------------------------------------------------------------ content store
\* an empty content-v2/ and an empty index-v5/
NoFiles == [p \in {} |-> <<>>]
NoBuckets == [b \in {} |-> <<>>]

HasFile(c, path) == path \in DOMAIN c

PutFile(c, path, data) ==
    [p \in DOMAIN c \cup {path} |-> IF p = path THEN data ELSE c[p]]

DelFile(c, path) == [p \in DOMAIN c \ {path} |-> c[p]]

\* a read that hands the file back without sri.check: what C3 rules out
ContentReadUnchecked(c, sri) ==
    LET cpath == ContentPath(sri)
    IN  IF ~HasFile(c, cpath) THEN Out("Io", sri, <<>>)
        ELSE Out("Ok", sri, c[cpath])

\* content::read::read
ContentRead(c, sri) ==
    LET cpath == ContentPath(sri)
    IN  IF ~HasFile(c, cpath) THEN Out("Io", sri, <<>>)
        ELSE IF ~Check(sri, c[cpath]) THEN Out("IntegrityMismatch", sri, <<>>)
        ELSE Out("Ok", sri, c[cpath])

\* an existence test that also verifies the file's hash: what C24 rules out
HasContentVerified(c, sri) ==
    HasFile(c, ContentPath(sri)) /\ Check(sri, c[ContentPath(sri)])

\* content::read::has_content(..).is_some()
HasContent(c, sri) == HasFile(c, ContentPath(sri))

\* an rm that leaves the file in place: what C5 rules out
RmNothing(c, sri) == c

\* content::rm::rm
RmOk(c, sri) == HasFile(c, ContentPath(sri))
Rm(c, sri) == DelFile(c, ContentPath(sri))

\* ------------------------------------------------------------ content writer
NoWriter == [open |-> FALSE]

\* content::write::Writer::new, with the put::Writer fields around it.
\* mapOk: whether MmapMut::map_mut returned a mapping.
NewWriter(key, algo, size, sri, time, mapOk) ==
    LET sized == size # NoSize /\ size <= MAX_MMAP_SIZE
    IN  [open    |-> TRUE,
         key     |-> key,
         algo    |-> IF algo = NoAlgo THEN "sha256" ELSE algo,
         size    |-> size,
         sri     |-> sri,
         time    |-> time,
         written |-> 0,
         hashed  |-> <<>>,
         mmap    |-> sized /\ mapOk,
         file    |-> IF sized THEN Zeros(size) ELSE <<>>,
         linked  |-> TRUE]

\* map_mut of an empty file fails or yields an empty mapping, by version
MapOutcomes(size) == IF size = 0 THEN BOOLEAN ELSE {TRUE}

\* mmap.copy_from_slice(buf) panics unless the lengths agree
WritePanics(wr, buf) == wr.mmap /\ Len(buf) # Len(wr.file)

\* File::write at the file cursor `pos`, which set_len leaves at 0
WriteAt(file, pos, buf) ==
    LET upto == IF Len(file) > pos + Len(buf) THEN Len(file) ELSE pos + Len(buf)
    IN  [i \in 1..upto |->
            IF i > pos /\ i <= pos + Len(buf) THEN buf[i - pos] ELSE file[i]]

\* a write that hashes the buffer but never copies it into the mapping: what
\* C2 rules out
WriterWriteNoCopy(wr, buf) ==
    [wr EXCEPT !.hashed  = wr.hashed \o buf,
               !.file    = IF wr.mmap THEN wr.file
                           ELSE WriteAt(wr.file, Len(wr.hashed), buf),
               !.written = wr.written + Len(buf)]

\* <content::write::Writer as Write>::write, then put::Writer::write's count:
\* the hash takes the buffer; the mapping, when there is one, is overwritten
\* whole by it; otherwise the buffer goes to the file at the cursor
WriterWrite(wr, buf) ==
    [wr EXCEPT !.hashed  = wr.hashed \o buf,
               !.file    = IF wr.mmap THEN buf
                           ELSE WriteAt(wr.file, Len(wr.hashed), buf),
               !.written = wr.written + Len(buf)]

\* Write::write_all: one write call per non-empty remainder
WriteAll(wr, data) == IF Len(data) = 0 THEN wr ELSE WriterWrite(wr, data)

\* self.builder.result()
WriterSri(wr) == IntegrityOf(wr.algo, wr.hashed)

\* tmpfile.persist(&cpath) succeeded
Persisted(c, wr, fails) == wr.linked /\ ~fails

\* the persist may fail on a platform that cannot replace an existing file
PersistOutcomes(c, wr) ==
    IF HasFile(c, ContentPath(WriterSri(wr))) THEN BOOLEAN ELSE {FALSE}

\* a close that empties the content store around the file it places: what C7
\* rules out
CloseContentAlone(c, wr, fails) ==
    IF Persisted(c, wr, fails)
    THEN PutFile(NoFiles, ContentPath(WriterSri(wr)), wr.file)
    ELSE c

\* content::write::Writer::close: the content store afterwards
CloseContent(c, wr, fails) ==
    IF Persisted(c, wr, fails)
    THEN PutFile(c, ContentPath(WriterSri(wr)), wr.file)
    ELSE c

\* a close that gives up when the persist fails, without looking for the
\* destination file: what C10 rules out
CloseOkNoStat(c, wr, fails) == Persisted(c, wr, fails)

\* content::write::Writer::close returned Ok
CloseOk(c, wr, fails) ==
    Persisted(c, wr, fails) \/ HasFile(c, ContentPath(WriterSri(wr)))

\* content::write::Writer::close: the call whose error it returns.  After a
\* failed persist the only `?` left is on std::fs::metadata(cpath), so the
\* error that comes back is that call's; the persist's own error is dropped.
CloseError(c, wr, fails) ==
    IF CloseOk(c, wr, fails) THEN "none" ELSE "metadata"

\* ------------------------------------------------------------ index store
\* Every model key hashes to the same bucket file unless stated otherwise:
\* the case in which lookups have to tell the keys of a bucket apart.
BucketOf(key) == IF key = "c" THEN 2 ELSE 1

Line(key, sri, time, size) ==
    [key |-> key, integrity |-> sri, time |-> time, size |-> size, valid |-> TRUE]

NoEntry == [found |-> FALSE, integrity |-> NoSri, time |-> NoTime, size |-> NoSize]

\* index::insert: append one line to the key's bucket
Insert(idx, key, sri, time, size, clock) ==
    LET b    == BucketOf(key)
        old  == IF b \in DOMAIN idx THEN idx[b] ELSE <<>>
        line == Line(key, sri, IF time = NoTime THEN clock ELSE time, size)
    IN  [x \in DOMAIN idx \cup {b} |-> IF x = b THEN Append(old, line) ELSE idx[x]]

\* index::delete: append a tombstone
Delete(idx, key, clock) == Insert(idx, key, NoSri, NoTime, NoSize, clock)

\* line i is at least as recent as line j: greater time, later position on ties
Newer(lines, i, j) ==
    lines[i].time > lines[j].time \/ (lines[i].time = lines[j].time /\ i >= j)

\* index::find
Find(idx, key) ==
    LET b == BucketOf(key)
    IN  IF b \notin DOMAIN idx THEN NoEntry
        ELSE LET lines == idx[b]
                 cand  == {i \in 1..Len(lines) :
                             lines[i].valid /\ lines[i].key = key}
             IN  IF cand = {} THEN NoEntry
                 ELSE LET best == CHOOSE i \in cand :
                                     \A j \in cand : Newer(lines, i, j)
                      IN  IF lines[best].integrity = NoSri THEN NoEntry
                          ELSE [found     |-> TRUE,
                                integrity |-> lines[best].integrity,
                                time      |-> lines[best].time,
                                size      |-> lines[best].size]

\* line i of a bucket is the effective record of its key and not a tombstone
Listed(lines, i) ==
    /\ lines[i].valid
    /\ lines[i].integrity # NoSri
    /\ \A j \in 1..Len(lines) :
         (lines[j].valid /\ lines[j].key = lines[i].key) => Newer(lines, i, j)

\* index::ls: walks index-v5/ and yields one item per effective record; with
\* no index-v5/ to walk (nothing was ever inserted, or clear removed it) the
\* walk yields an error item
Ls(idx) ==
    [err   |-> DOMAIN idx = {},
     items |-> {[bucket |-> b, pos |-> i, key |-> idx[b][i].key,
                 integrity |-> idx[b][i].integrity, time |-> idx[b][i].time] :
                   <<b, i>> \in {x \in UNION {{<<b2, i2>> : i2 \in 1..Len(idx[b2])} :
                                               b2 \in DOMAIN idx} :
                                   Listed(idx[x[1]], x[2])}}]

\* ------------------------------------------------------------ facade: reads
\* get::read_hash_sync
ReadHashSync(c, sri) == ContentRead(c, sri)

\* a read by key that gives up when any line of the key's bucket is damaged:
\* what C13 rules out
ReadSyncStrict(c, idx, key) ==
    LET entry == Find(idx, key)
        b     == BucketOf(key)
    IN  IF b \in DOMAIN idx /\ \E i \in 1..Len(idx[b]) : ~idx[b][i].valid
        THEN Out("Io", NoSri, <<>>)
        ELSE IF entry.found THEN ReadHashSync(c, entry.integrity)
        ELSE Out("EntryNotFound", NoSri, <<>>)

\* get::read_sync
ReadSync(c, idx, key) ==
    LET entry == Find(idx, key)
    IN  IF entry.found THEN ReadHashSync(c, entry.integrity)
        ELSE Out("EntryNotFound", NoSri, <<>>)

\* a lookup that takes the key's last record in the file, whatever its time:
\* what C12 rules out
MetadataSyncLast(idx, key) ==
    LET b == BucketOf(key)
    IN  IF b \notin DOMAIN idx THEN NoEntry
        ELSE LET lines == idx[b]
                 cand  == {i \in 1..Len(lines) :
                             lines[i].valid /\ lines[i].key = key}
             IN  IF cand = {} THEN NoEntry
                 ELSE LET last == CHOOSE i \in cand : \A j \in cand : i >= j
                      IN  IF lines[last].integrity = NoSri THEN NoEntry
                          ELSE [found     |-> TRUE,
                                integrity |-> lines[last].integrity,
                                time      |-> lines[last].time,
                                size      |-> lines[last].size]

\* get::metadata_sync
MetadataSync(idx, key) == Find(idx, key)

\* get::exists_sync
ExistsSync(c, sri) == HasContent(c, sri)

\* a list that swallows the error of the walk: what C15 rules out
ListQuiet(idx) == [err |-> FALSE, items |-> Ls(idx).items]

\* ls::list
ListSync(idx) == Ls(idx)

\* ------------------------------------------------------------ facade: commit
\* a commit that skips the comparison with the expected integrity: what C9
\* rules out
CommitKindNoIntegrity(wr, closed) ==
    IF ~closed THEN "Io"
    ELSE IF wr.size # NoSize /\ wr.size # wr.written THEN "SizeMismatch"
    ELSE "Ok"

\* put::Writer::commit, after self.writer.close(): the error it returns, or Ok
CommitKind(wr, closed) ==
    IF ~closed THEN "Io"
    ELSE IF wr.sri # NoSri /\ ~Matches(wr.sri, WriterSri(wr))
         THEN "IntegrityMismatch"
    ELSE IF wr.size # NoSize /\ wr.size # wr.written THEN "SizeMismatch"
    ELSE "Ok"

\* the descriptor left in self.opts.sri, which index::insert records
OptsSri(wr) == IF wr.sri # NoSri THEN wr.sri ELSE WriterSri(wr)

\* a commit whose record replaces the bucket instead of being appended to it:
\* what C11 rules out
CommitIndexReplacing(idx, wr, closed, clock) ==
    IF CommitKind(wr, closed) = "Ok" /\ wr.key # NoKey
    THEN Insert([b \in DOMAIN idx \ {BucketOf(wr.key)} |-> idx[b]],
                wr.key, OptsSri(wr), wr.time, wr.size, clock)
    ELSE idx

\* a commit that appends a record whether or not the writer has a key: what
\* C25 rules out
CommitIndexUnkeyed(idx, wr, closed, clock) ==
    IF CommitKind(wr, closed) = "Ok"
    THEN Insert(idx, wr.key, OptsSri(wr), wr.time, wr.size, clock)
    ELSE idx

\* put::Writer::commit: the index afterwards
CommitIndex(idx, wr, closed, clock) ==
    IF CommitKind(wr, closed) = "Ok" /\ wr.key # NoKey
    THEN Insert(idx, wr.key, OptsSri(wr), wr.time, wr.size, clock)
    ELSE idx

\* put::Writer::commit: the value returned
CommitRet(op, wr, closed) ==
    LET kind == CommitKind(wr, closed)
        sri  == IF kind # "Ok" THEN NoSri
                ELSE IF wr.key # NoKey THEN OptsSri(wr) ELSE WriterSri(wr)
    IN  Ret(op, wr.key, kind, sri, wr.hashed, wr.size, wr.written)

\* ------------------------------------------------------------ inputs
\* what an external modification can leave in a file
FileBytes == Bytes \cup {Zeros(n) : n \in 1..MaxLen}

\* WriteOpts::size: a size the mapping is used for, or a larger one
SizeOpts == (0..MaxLen) \cup {MAX_MMAP_SIZE + 1}

\* WriteOpts::time
TimeOpts == {0, 1}

\* WriteOpts::algorithm
AlgoOpts == Algorithms

\* WriteOpts::integrity: the sha256 descriptor of <<1>>, or the
\* descriptor carrying both the sha256 and the sha512 digest of <<1>>
SriOpts == {IntegrityOf("sha256", <<1>>),
            IntegrityOf("sha256", <<1>>) \cup IntegrityOf("sha512", <<1>>)}

\* descriptors a caller can hold: returned by a call, recorded in the index,
\* naming a stored file, or passed as an expected integrity
KnownSris ==
    ({ret.sri}
     \cup UNION {{index[b][i].integrity : i \in 1..Len(index[b])} : b \in DOMAIN index}
     \cup {{[algorithm |-> p[1], digest |-> p[2]]} : p \in DOMAIN content}
     \cup SriOpts) \ {NoSri}

\* ------------------------------------------------------------ initial state
\* WriteOpts::new
NewOpts == [algorithm |-> NoAlgo, sri |-> NoSri, size |-> NoSize, time |-> NoTime]

NoRet == Ret("none", NoKey, "Ok", NoSri, <<>>, NoSize, 0)

\* no streaming reader is open, no copy is under way, the destination path
\* of the copy holds no file, no pair of writers is open
NoReader == [open |-> FALSE]
NoCopy == [pc |-> "idle"]
NoDst == [exists |-> FALSE, data |-> <<>>]
NoTwin == [open |-> FALSE]
Unset == [set |-> FALSE, data |-> <<>>]

\* The cache directory as the caller finds it: empty, or holding an entry for
\* key "a" that an earlier session committed with WriteOpts::time(1).
PriorBytes == <<1>>
PriorSri == IntegrityOf("sha256", PriorBytes)
PriorCaches ==
    {[content |-> NoFiles, index |-> NoBuckets],
     [content |-> PutFile(NoFiles, ContentPath(PriorSri), PriorBytes),
      index   |-> Insert(NoBuckets, "a", PriorSri, 1, NoSize, 0)]}

Init ==
    /\ \E prior \in PriorCaches :
         /\ content = prior.content
         /\ index = prior.index
    /\ opts = NewOpts
    /\ w = NoWriter
    /\ now = 0
    /\ ret = NoRet
    /\ calls = 0
    /\ hist = {}
    /\ procs = <<>>
    /\ rt = [k \in Keys |-> Unset]
    /\ rd = NoReader
    /\ cp = NoCopy
    /\ dst = NoDst
    /\ tw = NoTwin

\* what a successful write adds to the record of returned descriptors
Returned(r) == IF r.kind = "Ok" THEN {[key |-> r.key, sri |-> r.sri]} ELSE {}

\* ------------------------------------------------------------ streaming writer
\* WriteOpts::algorithm
OptAlgorithm(algo) ==
    /\ calls < MaxCalls
    /\ opts' = [opts EXCEPT !.algorithm = algo]
    /\ ret' = Ret("opts", NoKey, "Ok", NoSri, <<>>, NoSize, 0)
    /\ calls' = calls + 1
    /\ UNCHANGED <<content, index, w, now, hist, rt, procs, rd, cp, dst, tw>>

\* WriteOpts::size
OptSize(size) ==
    /\ calls < MaxCalls
    /\ opts' = [opts EXCEPT !.size = size]
    /\ ret' = Ret("opts", NoKey, "Ok", NoSri, <<>>, NoSize, 0)
    /\ calls' = calls + 1
    /\ UNCHANGED <<content, index, w, now, hist, rt, procs, rd, cp, dst, tw>>

\* WriteOpts::time
OptTime(time) ==
    /\ calls < MaxCalls
    /\ opts' = [opts EXCEPT !.time = time]
    /\ ret' = Ret("opts", NoKey, "Ok", NoSri, <<>>, NoSize, 0)
    /\ calls' = calls + 1
    /\ UNCHANGED <<content, index, w, now, hist, rt, procs, rd, cp, dst, tw>>

\* WriteOpts::integrity
OptIntegrity(sri) ==
    /\ calls < MaxCalls
    /\ opts' = [opts EXCEPT !.sri = sri]
    /\ ret' = Ret("opts", NoKey, "Ok", NoSri, <<>>, NoSize, 0)
    /\ calls' = calls + 1
    /\ UNCHANGED <<content, index, w, now, hist, rt, procs, rd, cp, dst, tw>>

\* WriteOpts::open / WriteOpts::open_hash (key = NoKey); Writer::create is
\* open with the options as WriteOpts::new() leaves them
Open(key, mapOk) ==
    /\ ~w.open
    /\ calls < MaxCalls
    /\ w' = NewWriter(key, opts.algorithm, opts.size, opts.sri, opts.time, mapOk)
    /\ opts' = NewOpts
    /\ ret' = Ret("open", key, "Ok", NoSri, <<>>, opts.size, 0)
    /\ calls' = calls + 1
    /\ UNCHANGED <<content, index, now, hist, rt, procs, rd, cp, dst, tw>>

\* <put::Writer as Write>::write; a panic unwinds and drops the writer
Write(buf) ==
    /\ w.open
    /\ Len(w.hashed) + Len(buf) <= MaxLen
    /\ IF WritePanics(w, buf)
       THEN /\ w' = NoWriter
            /\ ret' = Ret("writer.write", w.key, "Panic", NoSri, buf, w.size, 0)
       ELSE /\ w' = WriterWrite(w, buf)
            /\ ret' = Ret("writer.write", w.key, "Ok", NoSri, buf, w.size, Len(buf))
    /\ UNCHANGED <<content, index, opts, now, calls, hist, rt, procs, rd, cp, dst, tw>>

\* put::Writer::commit
Commit ==
    /\ w.open
    /\ LET closed == CloseOk(content, w, FALSE)
       IN  /\ content' = CloseContent(content, w, FALSE)
           /\ index' = CommitIndex(index, w, closed, now)
           /\ ret' = CommitRet("commit", w, closed)
           /\ hist' = hist \cup Returned(CommitRet("commit", w, closed))
    /\ w' = NoWriter
    /\ rt' = [k \in Keys |-> IF k = w.key THEN Unset ELSE rt[k]]
    /\ UNCHANGED <<opts, now, calls, procs, rd, cp, dst, tw>>

\* a drop that leaves the staged file at its content path: what C14 rules out
DropPersisting ==
    /\ w.open
    /\ w' = NoWriter
    /\ content' = PutFile(content, ContentPath(WriterSri(w)), w.file)
    /\ ret' = Ret("drop", w.key, "Ok", NoSri, <<>>, w.size, w.written)
    /\ UNCHANGED <<index, opts, now, calls, hist, rt, procs, rd, cp, dst, tw>>

\* the writer goes out of scope without commit
Drop ==
    /\ w.open
    /\ w' = NoWriter
    /\ ret' = Ret("drop", w.key, "Ok", NoSri, <<>>, w.size, w.written)
    /\ UNCHANGED <<content, index, opts, now, calls, hist, rt, procs, rd, cp, dst, tw>>

\* ------------------------------------------------------------ one-shot writes
\* put::write: the writer as it is when commit is called
WriteWriter(key, data) ==
    [WriteAll(NewWriter(key, "sha256", NoSize, NoSri, NoTime, TRUE), data)
        EXCEPT !.written = Len(data)]

\* put::write_hash: the writer as it is when commit is called
WriteHashWriter(data, mapOk) ==
    [WriteAll(NewWriter(NoKey, "sha256", Len(data), NoSri, NoTime, mapOk), data)
        EXCEPT !.written = Len(data)]

\* put::write
WriteCall(key, data) ==
    /\ calls < MaxCalls
    /\ LET wr     == WriteWriter(key, data)
           closed == CloseOk(content, wr, FALSE)
       IN  /\ content' = CloseContent(content, wr, FALSE)
           /\ index' = CommitIndex(index, wr, closed, now)
           /\ ret' = CommitRet("write", wr, closed)
           /\ hist' = hist \cup Returned(CommitRet("write", wr, closed))
           /\ rt' = [rt EXCEPT ![key] =
                       IF CommitKind(wr, closed) = "Ok"
                       THEN [set |-> TRUE, data |-> data] ELSE Unset]
    /\ calls' = calls + 1
    /\ UNCHANGED <<opts, w, now, procs, rd, cp, dst, tw>>

\* put::write_hash
WriteHashCall(data) ==
    /\ calls < MaxCalls
    /\ \E mapOk \in MapOutcomes(Len(data)) :
         LET wr     == WriteHashWriter(data, mapOk)
             closed == CloseOk(content, wr, FALSE)
         IN  /\ content' = CloseContent(content, wr, FALSE)
             /\ index' = CommitIndex(index, wr, closed, now)
             /\ ret' = CommitRet("write_hash", wr, closed)
             /\ hist' = hist \cup Returned(CommitRet("write_hash", wr, closed))
    /\ calls' = calls + 1
    /\ UNCHANGED <<opts, w, now, rt, procs, rd, cp, dst, tw>>

\* ------------------------------------------------------------ reads
\* get::read_sync
Read(key) ==
    /\ LET r == ReadSync(content, index, key)
       IN  ret' = Ret("read", key, r.kind, r.sri, r.data, NoSize, 0)
    /\ calls < MaxCalls
    /\ calls' = calls + 1
    /\ UNCHANGED <<content, index, opts, w, now, hist, rt, procs, rd, cp, dst, tw>>

\* get::read_hash_sync
ReadHash(sri) ==
    /\ LET r == ReadHashSync(content, sri)
       IN  ret' = Ret("read_hash", NoKey, r.kind, sri, r.data, NoSize, 0)
    /\ calls < MaxCalls
    /\ calls' = calls + 1
    /\ UNCHANGED <<content, index, opts, w, now, hist, rt, procs, rd, cp, dst, tw>>

\* get::metadata_sync
Metadata(key) ==
    /\ LET e == MetadataSync(index, key)
       IN  ret' = Ret("metadata", key, IF e.found THEN "Some" ELSE "None",
                      e.integrity, <<>>, e.size, 0)
    /\ calls < MaxCalls
    /\ calls' = calls + 1
    /\ UNCHANGED <<content, index, opts, w, now, hist, rt, procs, rd, cp, dst, tw>>

\* get::exists_sync
Exists(sri) ==
    /\ ret' = Ret("exists", NoKey, IF ExistsSync(content, sri) THEN "true" ELSE "false",
                  sri, <<>>, NoSize, 0)
    /\ calls < MaxCalls
    /\ calls' = calls + 1
    /\ UNCHANGED <<content, index, opts, w, now, hist, rt, procs, rd, cp, dst, tw>>

\* ------------------------------------------------------------ removal
\* a remove that also deletes the content the key's record names: what C4
\* rules out
RemoveAlsoRm(key) ==
    /\ calls < MaxCalls
    /\ index' = Delete(index, key, now)
    /\ content' = IF Find(index, key).found
                  THEN Rm(content, Find(index, key).integrity) ELSE content
    /\ ret' = Ret("remove", key, "Ok", NoSri, <<>>, NoSize, 0)
    /\ rt' = [rt EXCEPT ![key] = Unset]
    /\ calls' = calls + 1
    /\ UNCHANGED <<opts, w, now, hist, procs, rd, cp, dst, tw>>

\* rm::remove_sync
Remove(key) ==
    /\ calls < MaxCalls
    /\ index' = Delete(index, key, now)
    /\ ret' = Ret("remove", key, "Ok", NoSri, <<>>, NoSize, 0)
    /\ rt' = [rt EXCEPT ![key] = Unset]
    /\ calls' = calls + 1
    /\ UNCHANGED <<content, opts, w, now, hist, procs, rd, cp, dst, tw>>

\* rm::remove_hash_sync
RemoveHash(sri) ==
    /\ calls < MaxCalls
    /\ IF RmOk(content, sri)
       THEN /\ content' = Rm(content, sri)
            /\ ret' = Ret("remove_hash", NoKey, "Ok", sri, <<>>, NoSize, 0)
       ELSE /\ content' = content
            /\ ret' = Ret("remove_hash", NoKey, "Io", sri, <<>>, NoSize, 0)
    /\ rt' = [k \in Keys |-> Unset]
    /\ calls' = calls + 1
    /\ UNCHANGED <<index, opts, w, now, hist, procs, rd, cp, dst, tw>>

\* a clear that removes index-v5/ only: what C6 rules out
ClearIndexOnly ==
    /\ calls < MaxCalls
    /\ content' = content
    /\ index' = NoBuckets
    /\ w' = w
    /\ ret' = Ret("clear", NoKey, "Ok", NoSri, <<>>, NoSize, 0)
    /\ rt' = [k \in Keys |-> Unset]
    /\ calls' = calls + 1
    /\ UNCHANGED <<opts, now, hist, procs, rd, cp, dst, tw>>

\* rm::clear_sync: removes tmp/, content-v2/ and index-v5/; the temp file of
\* an open writer is unlinked with tmp/
Clear ==
    /\ calls < MaxCalls
    /\ content' = NoFiles
    /\ index' = NoBuckets
    /\ w' = IF w.open THEN [w EXCEPT !.linked = FALSE] ELSE w
    /\ ret' = Ret("clear", NoKey, "Ok", NoSri, <<>>, NoSize, 0)
    /\ rt' = [k \in Keys |-> Unset]
    /\ calls' = calls + 1
    /\ UNCHANGED <<opts, now, hist, procs, rd, cp, dst, tw>>

\* ------------------------------------------------------------ environment
\* something other than the cache rewrites a content file
Tamper(path, data) ==
    /\ calls < MaxCalls
    /\ path \in DOMAIN content
    /\ data # content[path]
    /\ content' = PutFile(content, path, data)
    /\ ret' = Ret("external", NoKey, "Ok", NoSri, <<>>, NoSize, 0)
    /\ rt' = [k \in Keys |-> Unset]
    /\ calls' = calls + 1
    /\ UNCHANGED <<index, opts, w, now, hist, procs, rd, cp, dst, tw>>

\* the wall clock advances
Tick ==
    /\ calls < MaxCalls
    /\ now' = now + 1
    /\ calls' = calls + 1
    /\ UNCHANGED <<content, index, opts, w, ret, hist, rt, procs, rd, cp, dst, tw>>

\* the calls that write, read and remove by key: writers and readers only
NextWriters ==
    \/ \E algo \in AlgoOpts : OptAlgorithm(algo)
    \/ \E size \in SizeOpts : OptSize(size)
    \/ \E time \in TimeOpts : OptTime(time)
    \/ \E sri \in SriOpts : OptIntegrity(sri)
    \/ \E key \in Keys \cup {NoKey} : \E mapOk \in MapOutcomes(opts.size) : Open(key, mapOk)
    \/ \E buf \in Bytes : Write(buf)
    \/ Commit
    \/ Drop
    \/ \E key \in Keys, data \in Bytes : WriteCall(key, data)
    \/ \E data \in Bytes : WriteHashCall(data)
    \/ \E key \in Keys : Read(key)
    \/ \E sri \in KnownSris : ReadHash(sri)
    \/ \E key \in Keys : Metadata(key)
    \/ \E sri \in KnownSris : Exists(sri)
    \/ \E key \in Keys : Remove(key)
    \/ Tick

Next ==
    \/ NextWriters
    \/ \E sri \in KnownSris : RemoveHash(sri)
    \/ Clear
    \/ \E path \in DOMAIN content, data \in FileBytes : Tamper(path, data)

Spec == Init /\ [][Next]_vars

\* the cache used through its writers and readers alone: no remove_hash, no
\* clear, and nothing else touching its files
SpecWriters == Init /\ [][NextWriters]_vars

\* ------------------------------------------------------------ racing writers
\* NProcs processes call put::write(cache, K_p, B) at once, each with its own
\* key and all with the same bytes B, on an empty cache.  A call is split at
\* its file-system operations.
Procs == 1..NProcs
RaceKeys == <<"a", "b", "c", "d">>
RaceKey(p) == RaceKeys[p]

InitRace ==
    /\ content = NoFiles
    /\ index = NoBuckets
    /\ opts = NewOpts
    /\ w = NoWriter
    /\ now = 0
    /\ ret = NoRet
    /\ calls = 0
    /\ hist = {}
    /\ rt = [k \in Keys |-> Unset]
    /\ rd = NoReader
    /\ cp = NoCopy
    /\ dst = NoDst
    /\ tw = NoTwin
    /\ \E data \in Bytes :
         procs = [p \in Procs |-> [pc |-> "create", data |-> data,
                                   wr |-> NoWriter, lost |-> FALSE,
                                   err |-> "none", ret |-> NoRet]]

RaceFrame == UNCHANGED <<opts, w, now, ret, calls, hist, rt, rd, cp, dst, tw>>

\* Writer::create: content::write::Writer::new makes the temp file in tmp/
RaceCreate(p) ==
    /\ procs[p].pc = "create"
    /\ procs' = [procs EXCEPT ![p].pc = "write_all",
                              ![p].wr = NewWriter(RaceKey(p), "sha256", NoSize,
                                                  NoSri, NoTime, TRUE)]
    /\ UNCHANGED <<content, index>>
    /\ RaceFrame

\* writer.write_all(data), then writer.written = data.len()
RaceWriteAll(p) ==
    /\ procs[p].pc = "write_all"
    /\ procs' = [procs EXCEPT ![p].pc = "persist",
                              ![p].wr = [WriteAll(procs[p].wr, procs[p].data)
                                           EXCEPT !.written = Len(procs[p].data)]]
    /\ UNCHANGED <<content, index>>
    /\ RaceFrame

\* Writer::close up to tmpfile.persist(&cpath): the rename replaces the
\* destination, or fails because it exists; the temp file is gone either way
\* (renamed, or deleted when the error that carries it is dropped)
RacePersist(p) ==
    /\ procs[p].pc = "persist"
    /\ \E fails \in PersistOutcomes(content, procs[p].wr) :
         /\ content' = CloseContent(content, procs[p].wr, fails)
         /\ procs' = [procs EXCEPT ![p].pc = IF fails THEN "metadata" ELSE "insert",
                                   ![p].wr.linked = FALSE,
                                   ![p].lost = fails]
    /\ UNCHANGED index
    /\ RaceFrame

\* Writer::close after a failed persist: std::fs::metadata(cpath)
RaceMetadata(p) ==
    /\ procs[p].pc = "metadata"
    /\ LET wr     == procs[p].wr
           closed == CloseOk(content, wr, TRUE)
       IN  procs' = [procs EXCEPT
                       ![p].pc  = IF closed THEN "insert" ELSE "done",
                       ![p].err = CloseError(content, wr, TRUE),
                       ![p].ret = IF closed THEN NoRet
                                  ELSE CommitRet("write", wr, FALSE)]
    /\ UNCHANGED <<content, index>>
    /\ RaceFrame

\* Writer::commit after close: the checks, then index::insert
RaceInsert(p) ==
    /\ procs[p].pc = "insert"
    /\ index' = CommitIndex(index, procs[p].wr, TRUE, now)
    /\ procs' = [procs EXCEPT ![p].pc = "done",
                              ![p].ret = CommitRet("write", procs[p].wr, TRUE)]
    /\ UNCHANGED content
    /\ RaceFrame

NextRace ==
    \/ \E p \in Procs : RaceCreate(p)
    \/ \E p \in Procs : RaceWriteAll(p)
    \/ \E p \in Procs : RacePersist(p)
    \/ \E p \in Procs : RaceMetadata(p)
    \/ \E p \in Procs : RaceInsert(p)

SpecRace == InitRace /\ [][NextRace]_vars

\* ------------------------------------------------------------ close under conflict
\* The racing writers again, with a rename that can fail for any reason,
\* whether or not the destination exists, and with another process that
\* removes content files by hash in between.
ClosePersist(p) ==
    /\ procs[p].pc = "persist"
    /\ \E fails \in BOOLEAN :
         /\ content' = CloseContent(content, procs[p].wr, fails)
         /\ procs' = [procs EXCEPT ![p].pc = IF fails THEN "metadata" ELSE "insert",
                                   ![p].wr.linked = FALSE,
                                   ![p].lost = fails]
    /\ UNCHANGED index
    /\ RaceFrame

\* rm::remove_hash_sync, called by another process
CloseRm(sri) ==
    /\ RmOk(content, sri)
    /\ content' = Rm(content, sri)
    /\ UNCHANGED <<index, procs, rd, cp, dst, tw>>
    /\ RaceFrame

NextClose ==
    \/ \E p \in Procs : RaceCreate(p)
    \/ \E p \in Procs : RaceWriteAll(p)
    \/ \E p \in Procs : ClosePersist(p)
    \/ \E sri \in {IntegrityOf("sha256", procs[p].data) : p \in Procs} : CloseRm(sri)
    \/ \E p \in Procs : RaceMetadata(p)
    \/ \E p \in Procs : RaceInsert(p)

SpecClose == InitRace /\ [][NextClose]_vars

\* ------------------------------------------------------------ index histories
\* One bucket directory built up by keyed commits with and without a
\* caller-supplied time, removes, one damaged line and clear, starting from
\* a root nothing was written to; metadata and list are asked in between.
\* Keys "a" and "b" share a bucket, "c" has its own.
IdxKeys == {"a", "b", "c"}
IdxBytes == <<1>>

RECURSIVE LineCount(_)
LineCount(idx) ==
    IF DOMAIN idx = {} THEN 0
    ELSE LET b == CHOOSE x \in DOMAIN idx : TRUE
         IN  Len(idx[b]) + LineCount([x \in DOMAIN idx \ {b} |-> idx[x]])

\* no line of the index is damaged
Intact(idx) == \A b \in DOMAIN idx : \A i \in 1..Len(idx[b]) : idx[b][i].valid

InitIndex ==
    /\ content = NoFiles
    /\ index = NoBuckets
    /\ opts = NewOpts
    /\ w = NoWriter
    /\ now = 0
    /\ ret = NoRet
    /\ calls = 0
    /\ hist = {}
    /\ rt = [k \in Keys |-> Unset]
    /\ rd = NoReader
    /\ cp = NoCopy
    /\ dst = NoDst
    /\ tw = NoTwin
    /\ procs = <<>>

IdxFrame == UNCHANGED <<opts, w, now, calls, rt, procs, rd, cp, dst, tw>>

\* WriteOpts::new().time(time).open(cache, key), write_all, commit; time may
\* be left unset
IdxCommit(key, time) ==
    /\ LineCount(index) < MaxLines
    /\ LET wr == [WriteAll(NewWriter(key, NoAlgo, NoSize, NoSri, time, TRUE),
                           IdxBytes) EXCEPT !.written = Len(IdxBytes)]
       IN  /\ content' = CloseContent(content, wr, FALSE)
           /\ index' = CommitIndex(index, wr, CloseOk(content, wr, FALSE), now)
           /\ ret' = CommitRet("commit", wr, CloseOk(content, wr, FALSE))
           /\ hist' = hist \cup Returned(CommitRet("commit", wr, TRUE))
    /\ IdxFrame

\* rm::remove_sync
IdxRemove(key) ==
    /\ LineCount(index) < MaxLines
    /\ index' = Delete(index, key, now)
    /\ ret' = Ret("remove", key, "Ok", NoSri, <<>>, NoSize, 0)
    /\ UNCHANGED <<content, hist>>
    /\ IdxFrame

\* one line of a bucket is damaged (a torn append, a flipped byte): its
\* checksum no longer matches
IdxDamage(b, i) ==
    /\ Intact(index)
    /\ b \in DOMAIN index
    /\ i \in 1..Len(index[b])
    /\ index' = [index EXCEPT ![b][i].valid = FALSE]
    /\ ret' = Ret("external", index[b][i].key, "Ok", NoSri, <<>>, NoSize, 0)
    /\ UNCHANGED <<content, hist>>
    /\ IdxFrame

\* rm::clear_sync
IdxClear ==
    /\ index # NoBuckets
    /\ content' = NoFiles
    /\ index' = NoBuckets
    /\ ret' = Ret("clear", NoKey, "Ok", NoSri, <<>>, NoSize, 0)
    /\ UNCHANGED hist
    /\ IdxFrame

\* get::metadata_sync
IdxMetadata(key) ==
    /\ LET e == MetadataSync(index, key)
       IN  ret' = Ret("metadata", key, IF e.found THEN "Some" ELSE "None",
                      e.integrity, <<>>, e.size, 0)
    /\ UNCHANGED <<content, index, hist>>
    /\ IdxFrame

\* ls::list, collected
IdxList ==
    /\ LET l == ListSync(index)
       IN  ret' = Ret("list", NoKey, IF l.err THEN "Err" ELSE "Ok", NoSri,
                      <<>>, NoSize, Cardinality(l.items))
    /\ UNCHANGED <<content, index, hist>>
    /\ IdxFrame

NextIndex ==
    \/ \E key \in IdxKeys, time \in TimeOpts \cup {NoTime} : IdxCommit(key, time)
    \/ \E key \in IdxKeys : IdxRemove(key)
    \/ \E b \in DOMAIN index : \E i \in 1..Len(index[b]) : IdxDamage(b, i)
    \/ IdxClear
    \/ \E key \in IdxKeys : IdxMetadata(key)
    \/ IdxList

SpecIndex == InitIndex /\ [][NextIndex]_vars

\* ------------------------------------------------------------ streaming reader
\* A cache shaped by keyed writes and by external modification of its content
\* files, read through the bulk calls and through the streaming reader.  A
\* file is not modified from outside while a reader holds it open.

\* content::read::open: the handle on the file found at the derived path
OpenReader(sri, file) ==
    [open |-> TRUE, sri |-> sri, file |-> file, pos |-> 0, fed |-> <<>>]

\* self.fd.read(buf): up to n bytes of the file from the handle's offset
ReadChunk(file, pos, n) ==
    SubSeq(file, pos + 1, IF pos + n < Len(file) THEN pos + n ELSE Len(file))

\* <Reader as Read>::read: the bytes read are fed to the checker
ReaderRead(r, n) ==
    [r EXCEPT !.pos = r.pos + Len(ReadChunk(r.file, r.pos, n)),
              !.fed = r.fed \o ReadChunk(r.file, r.pos, n)]

\* Reader::check: self.checker.result() on what was fed so far
ReaderCheck(r) == IF Check(r.sri, r.fed) THEN "Ok" ELSE "IntegrityMismatch"

\* the sizes of the buffers a caller reads into
ChunkSizes == 1..MaxLen

\* SyncReader::open_hash
RdOpenHash(sri) ==
    /\ ~rd.open
    /\ calls < MaxCalls
    /\ IF HasFile(content, ContentPath(sri))
       THEN /\ rd' = OpenReader(sri, content[ContentPath(sri)])
            /\ ret' = Ret("reader.open", NoKey, "Ok", sri, <<>>, NoSize, 0)
       ELSE /\ rd' = rd
            /\ ret' = Ret("reader.open", NoKey, "Io", sri, <<>>, NoSize, 0)
    /\ calls' = calls + 1
    /\ UNCHANGED <<content, index, opts, w, now, hist, rt, procs, cp, dst, tw>>

\* SyncReader::open
RdOpen(key) ==
    /\ ~rd.open
    /\ calls < MaxCalls
    /\ LET entry == Find(index, key)
       IN  IF ~entry.found
           THEN /\ rd' = rd
                /\ ret' = Ret("reader.open", key, "EntryNotFound", NoSri, <<>>, NoSize, 0)
           ELSE IF HasFile(content, ContentPath(entry.integrity))
           THEN /\ rd' = OpenReader(entry.integrity,
                                    content[ContentPath(entry.integrity)])
                /\ ret' = Ret("reader.open", key, "Ok", entry.integrity, <<>>, NoSize, 0)
           ELSE /\ rd' = rd
                /\ ret' = Ret("reader.open", key, "Io", entry.integrity, <<>>, NoSize, 0)
    /\ calls' = calls + 1
    /\ UNCHANGED <<content, index, opts, w, now, hist, rt, procs, cp, dst, tw>>

\* <SyncReader as Read>::read into a buffer of n bytes
RdRead(n) ==
    /\ rd.open
    /\ rd' = ReaderRead(rd, n)
    /\ ret' = Ret("reader.read", NoKey, "Ok", rd.sri, ReadChunk(rd.file, rd.pos, n),
                  NoSize, Len(ReadChunk(rd.file, rd.pos, n)))
    /\ UNCHANGED <<content, index, opts, w, now, calls, hist, rt, procs, cp, dst, tw>>

\* SyncReader::check, which consumes the reader
RdCheck ==
    /\ rd.open
    /\ rd' = NoReader
    /\ ret' = Ret("check", NoKey, ReaderCheck(rd), rd.sri, rd.fed, Len(rd.file), rd.pos)
    /\ UNCHANGED <<content, index, opts, w, now, calls, hist, rt, procs, cp, dst, tw>>

\* something other than the cache rewrites a content file no reader holds
RdTamper(path, data) ==
    /\ ~rd.open
    /\ Tamper(path, data)

\* something other than the cache truncates a content file to half its length
Truncate(path) ==
    /\ ~rd.open
    /\ calls < MaxCalls
    /\ path \in DOMAIN content
    /\ content' = PutFile(content, path,
                          SubSeq(content[path], 1, Len(content[path]) \div 2))
    /\ ret' = Ret("truncate", NoKey, "Ok", {[algorithm |-> path[1], digest |-> path[2]]},
                  content[path], NoSize, Len(content[path]) \div 2)
    /\ rt' = [k \in Keys |-> Unset]
    /\ calls' = calls + 1
    /\ UNCHANGED <<index, opts, w, now, hist, procs, rd, cp, dst, tw>>

NextReader ==
    \/ \E key \in Keys, data \in Bytes : WriteCall(key, data)
    \/ \E path \in DOMAIN content, data \in FileBytes : RdTamper(path, data)
    \/ \E path \in DOMAIN content : Truncate(path)
    \/ \E sri \in KnownSris : RdOpenHash(sri)
    \/ \E key \in Keys : RdOpen(key)
    \/ \E n \in ChunkSizes : RdRead(n)
    \/ RdCheck
    \/ \E key \in Keys : Read(key)
    \/ \E sri \in KnownSris : ReadHash(sri)
    \/ \E sri \in KnownSris : Exists(sri)

SpecReader == InitIndex /\ [][NextReader]_vars

\* ------------------------------------------------------------ verified copy
\* One copy call, split at its two reads of the source, while other callers
\* write and remove content and something else rewrites content files.

\* fs::copy(&cpath, to): the destination afterwards; a source that cannot be
\* opened leaves the destination as it was
CopyFile(c, sri, d) ==
    IF HasFile(c, ContentPath(sri))
    THEN [exists |-> TRUE, data |-> c[ContentPath(sri)]]
    ELSE d

\* a copy at one of its steps, or returned
Copying(pc, key, sri, n, kind) ==
    [pc |-> pc, key |-> key, sri |-> sri, n |-> n, kind |-> kind]

\* content::read::copy up to `let ret = fs::copy(&cpath, to).to_internal()?`
CopyStart(key, sri) ==
    /\ dst' = CopyFile(content, sri, dst)
    /\ IF HasFile(content, ContentPath(sri))
       THEN /\ cp' = Copying("copied", key, sri, Len(content[ContentPath(sri)]), "Ok")
            /\ ret' = ret
       ELSE /\ cp' = Copying("done", key, sri, 0, "Io")
            /\ ret' = Ret("copy", key, "Io", sri, <<>>, NoSize, 0)

\* get::copy_hash_sync, up to the file copy
CopyHash(sri) ==
    /\ cp.pc = "idle"
    /\ CopyStart(NoKey, sri)
    /\ UNCHANGED <<content, index, opts, w, now, calls, hist, rt, procs, rd, tw>>

\* get::copy_sync, up to the file copy
CopyKey(key) ==
    /\ cp.pc = "idle"
    /\ IF Find(index, key).found
       THEN CopyStart(key, Find(index, key).integrity)
       ELSE /\ cp' = Copying("done", key, NoSri, 0, "EntryNotFound")
            /\ ret' = Ret("copy", key, "EntryNotFound", NoSri, <<>>, NoSize, 0)
            /\ dst' = dst
    /\ UNCHANGED <<content, index, opts, w, now, calls, hist, rt, procs, rd, tw>>

\* content::read::copy from `let data = fs::read(cpath).to_internal()?` on:
\* the source is read again and checked, and the count of the file copy is
\* returned
CopyVerify ==
    /\ cp.pc = "copied"
    /\ LET r == ContentRead(content, cp.sri)
       IN  /\ cp' = [cp EXCEPT !.pc = "done", !.kind = r.kind]
           /\ ret' = Ret("copy", cp.key, r.kind, cp.sri, dst.data, NoSize, cp.n)
    /\ UNCHANGED <<content, index, opts, w, now, calls, hist, rt, procs, rd, dst, tw>>

NextCopy ==
    \/ \E sri \in KnownSris : CopyHash(sri)
    \/ \E key \in Keys : CopyKey(key)
    \/ CopyVerify
    \/ \E key \in Keys, data \in Bytes : WriteCall(key, data)
    \/ \E sri \in KnownSris : RemoveHash(sri)
    \/ \E path \in DOMAIN content, data \in FileBytes : Tamper(path, data)

SpecCopy == Init /\ [][NextCopy]_vars

\* ------------------------------------------------------------ mapped and unmapped writers
\* Two writers opened with the same key and the same declared size, at most
\* MAX_MMAP_SIZE, each on an empty cache of its own: for one MmapMut::map_mut
\* returned a mapping, for the other it did not.  Both are given the same
\* buffers and then committed.

\* the sizes declared: all of them at most MAX_MMAP_SIZE
TwinSizes == 0..MaxLen

\* what a write call returned: Ok(n), or a panic
NoCall == [kind |-> "none", n |-> 0]
CallResult(wr, buf) ==
    IF WritePanics(wr, buf) THEN [kind |-> "Panic", n |-> 0]
    ELSE [kind |-> "Ok", n |-> Len(buf)]

\* put::Writer::commit on a cache nothing else was written to: what it
\* returned, and the content store and the index it left
NoOutcome == [kind |-> "none"]
CommitOutcome(wr, clock) ==
    LET closed == CloseOk(NoFiles, wr, FALSE)
    IN  [kind    |-> CommitKind(wr, closed),
         sri     |-> CommitRet("commit", wr, closed).sri,
         content |-> CloseContent(NoFiles, wr, FALSE),
         index   |-> CommitIndex(NoBuckets, wr, closed, clock)]

\* WriteOpts::new().algorithm(algo).size(size).open(cache, key), or
\* open_hash, twice
TwOpen(key, algo, size) ==
    /\ ~tw.open
    /\ tw' = [open |-> TRUE,
              m    |-> NewWriter(key, algo, size, NoSri, NoTime, TRUE),
              f    |-> NewWriter(key, algo, size, NoSri, NoTime, FALSE),
              mres |-> NoCall, fres |-> NoCall,
              mout |-> NoOutcome, fout |-> NoOutcome]
    /\ UNCHANGED <<content, index, opts, w, now, ret, calls, hist, rt, procs, rd, cp, dst>>

\* <put::Writer as Write>::write on both; a panic unwinds and drops the writer
TwWrite(buf) ==
    /\ tw.open /\ tw.m.open /\ tw.f.open
    /\ Len(tw.f.hashed) + Len(buf) <= MaxLen
    /\ tw' = [tw EXCEPT
                !.m    = IF WritePanics(tw.m, buf) THEN NoWriter
                         ELSE WriterWrite(tw.m, buf),
                !.f    = IF WritePanics(tw.f, buf) THEN NoWriter
                         ELSE WriterWrite(tw.f, buf),
                !.mres = CallResult(tw.m, buf),
                !.fres = CallResult(tw.f, buf)]
    /\ UNCHANGED <<content, index, opts, w, now, ret, calls, hist, rt, procs, rd, cp, dst>>

\* put::Writer::commit on both
TwCommit ==
    /\ tw.open /\ tw.m.open /\ tw.f.open
    /\ tw' = [tw EXCEPT !.m = NoWriter, !.f = NoWriter,
                        !.mout = CommitOutcome(tw.m, now),
                        !.fout = CommitOutcome(tw.f, now)]
    /\ UNCHANGED <<content, index, opts, w, now, ret, calls, hist, rt, procs, rd, cp, dst>>

NextTwin ==
    \/ \E key \in Keys \cup {NoKey}, algo \in AlgoOpts, size \in TwinSizes :
         TwOpen(key, algo, size)
    \/ \E buf \in Bytes : TwWrite(buf)
    \/ TwCommit

SpecTwin == InitIndex /\ [][NextTwin]_vars

\* ------------------------------------------------------------ properties
\* the record appended last for `key` is shadowed: an earlier record of the
\* key carries a greater time (one written with WriteOpts::time ahead of the
\* clock that dated the later record)
Shadowed(idx, key) ==
    /\ BucketOf(key) \in DOMAIN idx
    /\ LET lines == idx[BucketOf(key)]
           mine  == {i \in 1..Len(lines) : lines[i].valid /\ lines[i].key = key}
       IN  \E i \in mine, j \in mine :
              /\ \A x \in mine : x <= j
              /\ lines[i].time > lines[j].time

\* `data` hashes to descriptor `sri`: its digest under the algorithm the
\* descriptor is verified with is one of the descriptor's pairs
HashesTo(data, sri) == Hash(PickAlgorithm(sri), data) \in sri

\* the descriptors a caller may ask for: those it holds, those writes have
\* returned, and the descriptor of every byte string a file can hold
ProbeSris ==
    KnownSris \cup ({h.sri : h \in hist} \ {NoSri})
              \cup {IntegrityOf(a, d) : a \in Algorithms, d \in FileBytes}

\* C1: keyed round trip.  Once write(K, B) has returned successfully, and no
\* write or remove on K, no remove_hash and no clear has followed, read(K)
\* returns exactly B.  Stated for the keys whose last record is not shadowed
\* by an earlier one, so that the lookup itself is not in question.
C1_KeyedRoundTrip ==
    \A k \in Keys :
        (rt[k].set /\ ~Shadowed(index, k)) =>
            LET r == ReadSync(content, index, k)
            IN  r.kind = "Ok" /\ r.data = rt[k].data

\* C2: hash round trip.  write_hash(B) and write(K, B) succeed, and with the
\* descriptor they return read_hash gives back exactly B and exists is true.
C2_HashRoundTrip ==
    ret.op \in {"write", "write_hash"} =>
        /\ ret.kind = "Ok"
        /\ ReadHashSync(content, ret.sri) = Out("Ok", ret.sri, ret.data)
        /\ ExistsSync(content, ret.sri)

\* C2 witness: a write_hash of a non-empty B, which went through the mapping,
\* has returned and its descriptor reads back
C2_Witness ==
    /\ ret.op = "write_hash"
    /\ ret.kind = "Ok"
    /\ Len(ret.data) > 0
    /\ ret.a = Len(ret.data)
    /\ ret.a <= MAX_MMAP_SIZE
    /\ ReadHashSync(content, ret.sri).data = ret.data

\* C3: bulk reads never return unverified bytes.  In every state, read_hash(sri)
\* and read(K) return Ok(bytes) only if the bytes hash to the descriptor asked
\* for, and fail with IntegrityMismatch when the file at the derived path holds
\* anything else.
C3_CheckedAt(sri, r) ==
    /\ r.kind = "Ok" => HashesTo(r.data, sri)
    /\ (HasFile(content, ContentPath(sri))
          /\ ~HashesTo(content[ContentPath(sri)], sri))
       => r.kind = "IntegrityMismatch"

C3_ReadsVerified ==
    /\ \A sri \in ProbeSris : C3_CheckedAt(sri, ReadHashSync(content, sri))
    /\ \A k \in Keys :
         MetadataSync(index, k).found =>
            C3_CheckedAt(MetadataSync(index, k).integrity,
                         ReadSync(content, index, k))

\* C3 witness: a content file was modified from outside and the key whose
\* record names it now fails to read with IntegrityMismatch
C3_Witness ==
    /\ ret.op = "external"
    /\ \E k \in Keys :
         /\ MetadataSync(index, k).found
         /\ HasContent(content, MetadataSync(index, k).integrity)
         /\ ReadSync(content, index, k).kind = "IntegrityMismatch"

\* the step is remove(K), made right after write(K, B) returned (the clock may
\* have advanced in between)
RemoveAfterWrite ==
    /\ ret.op = "write" /\ ret.kind = "Ok"
    /\ ret'.op = "remove" /\ ret'.kind = "Ok" /\ ret'.key = ret.key

\* what C4 promises about the state after that step
C4_Post ==
    /\ ~MetadataSync(index', ret.key).found
    /\ ReadSync(content', index', ret.key).kind = "EntryNotFound"
    /\ content' = content
    /\ ExistsSync(content', ret.sri)
    /\ ReadHashSync(content', ret.sri) = Out("Ok", ret.sri, ret.data)

RemoveHashAfterWrite ==
    /\ ret.op = "write" /\ ret.kind = "Ok"
    /\ ret'.op = "remove_hash" /\ ret'.kind = "Ok" /\ ret'.sri = ret.sri

\* what C5 promises about the state after that step
C5_Post ==
    /\ ~ExistsSync(content', ret.sri)
    /\ index' = index
    /\ MetadataSync(index', ret.key).found
    /\ MetadataSync(index', ret.key).integrity = ret.sri
    /\ ReadSync(content', index', ret.key).kind = "Io"

C6_ClearRemovesAll ==
    ret.op = "clear" =>
        /\ \A k \in Keys :
             /\ ~MetadataSync(index, k).found
             /\ ReadSync(content, index, k).kind # "Ok"
        /\ \A sri \in ProbeSris :
             /\ ReadHashSync(content, sri).kind # "Ok"
             /\ ~ExistsSync(content, sri)

\* C6 witness: clear() has returned on a cache in which a keyed write had
\* succeeded
C6_Witness ==
    /\ ret.op = "clear"
    /\ \E h \in hist : h.key \in Keys /\ ~ExistsSync(content, h.sri)

\* the step is write(K, B2), made right after write(K, B1) returned, with
\* B1 # B2; ret holds the first call's result and ret' the second's
OverwriteAfterWrite ==
    /\ ret.op = "write" /\ ret.kind = "Ok"
    /\ ret'.op = "write" /\ ret'.kind = "Ok"
    /\ ret'.key = ret.key /\ ret'.data # ret.data

\* what C7 promises about the state after that step
C7_Post ==
    /\ ReadSync(content', index', ret.key) = Out("Ok", ret'.sri, ret'.data)
    /\ ReadHashSync(content', ret.sri) = Out("Ok", ret.sri, ret.data)
    /\ ReadHashSync(content', ret'.sri) = Out("Ok", ret'.sri, ret'.data)

C8_SizeMismatch ==
    /\ (ret.op = "writer.write" /\ ret.a # NoSize) => ret.kind # "Panic"
    /\ (ret.op = "commit" /\ ret.a # NoSize /\ ret.b # ret.a /\ ret.kind # "Io")
       => ret.kind = "SizeMismatch"

\* the step is the commit of a writer opened with an expected integrity, and
\* its close placed (or found) the content file
CommitWithExpected ==
    /\ w.open /\ ~w'.open /\ ret'.op = "commit"
    /\ w.sri # NoSri
    /\ ret'.kind # "Io"

\* C9: integrity check at commit.  The commit of a writer opened with
\* integrity(E) fails with IntegrityMismatch exactly when E shares no
\* (algorithm, digest) pair with the descriptor of the bytes written.
C9_IntegrityCheck ==
    [][CommitWithExpected =>
         (ret'.kind = "IntegrityMismatch" <=> (w.sri \cap WriterSri(w) = {}))]_vars

\* C9 witness: a writer opened with an expected integrity and a sha512
\* digest, whose bytes are the expected ones but share no pair with it under
\* sha512, has failed to commit with IntegrityMismatch
C9_Witness ==
    /\ ret.op = "commit"
    /\ ret.kind = "IntegrityMismatch"
    /\ ret.data = <<1>>

\* every racing call has returned
RaceOver == \A p \in Procs : procs[p].pc = "done"

\* C10: racing identical writers.  When NProcs concurrent write(K_p, B) calls
\* with the same B and distinct keys have all returned, in whatever order their
\* steps were taken, each returned Ok with the descriptor of B, read(K_p)
\* returns B for every p, the content store holds exactly one file, at the
\* path derived from that descriptor, and no temp file is left.
C10_RacingWriters ==
    RaceOver =>
        LET sri == IntegrityOf("sha256", procs[1].data)
        IN  /\ \A p \in Procs :
                 /\ procs[p].ret.kind = "Ok"
                 /\ procs[p].ret.sri = sri
                 /\ ReadSync(content, index, RaceKey(p))
                      = Out("Ok", sri, procs[p].data)
                 /\ ~procs[p].wr.linked
            /\ DOMAIN content = {ContentPath(sri)}

\* C10 witness: all calls have returned and one of them lost the rename race
\* (its record was appended although another call's file is the one stored)
C10_Witness ==
    /\ RaceOver
    /\ \E p \in Procs :
         /\ procs[p].lost
         /\ procs[p].ret.kind = "Ok"
         /\ ReadSync(content, index, RaceKey(p)).data = procs[p].data

\* C14: nothing is visible before commit.  Opening a writer, writing to it and
\* dropping it leave the content store and the index as they were, and after
\* the drop no staged temp file is left.
C14_NothingBeforeCommit ==
    [][ret'.op \in {"open", "writer.write", "drop"} =>
         /\ content' = content
         /\ index' = index
         /\ (ret'.op = "drop" => ~w'.open)]_vars

\* C14 witness: a writer that had taken bytes was dropped, and the cache is
\* still as empty as it was found
C14_Witness ==
    /\ ret.op = "drop"
    /\ ret.b > 0
    /\ ~w.open
    /\ content = NoFiles
    /\ index = NoBuckets

\* C16: content-address invariant.  Every file at a content path hashes,
\* under the path's algorithm, to the digest the path encodes.
C16_ContentAddressed ==
    \A path \in DOMAIN content : Digest(path[1], content[path]) = path[2]

\* the step is a commit that returned an error
FailedCommit ==
    /\ w.open /\ ~w'.open
    /\ ret'.op = "commit"
    /\ ret'.kind # "Ok"

\* C17: content files appear only through a successful commit.  A commit
\* that returns an error leaves the set of content files unchanged, and so do
\* reads, exists, metadata, remove(key), the writer's open, write and drop.
C17_FilesOnlyByCommit ==
    [][(FailedCommit
          \/ ret'.op \in {"opts", "open", "writer.write", "drop", "read",
                          "read_hash", "metadata", "exists", "remove"})
       => DOMAIN content' = DOMAIN content]_vars

\* C18: failed commits never touch the index.  When commit returns an error
\* the index is unchanged, and metadata(K) and read(K) for the writer's key
\* give what they gave before.
C18_FailedCommitKeepsIndex ==
    [][FailedCommit =>
         /\ index' = index
         /\ w.key \in Keys =>
              /\ MetadataSync(index', w.key) = MetadataSync(index, w.key)
              /\ ReadSync(content', index', w.key)
                   = ReadSync(content, index, w.key)]_vars

\* C20: commit ordering.  With writers and readers only, every effective
\* index record names a descriptor for which exists(sri) is true.
C20_RecordsHaveContent ==
    \A k \in Keys :
        MetadataSync(index, k).found
            => ExistsSync(content, MetadataSync(index, k).integrity)

\* C11: racing index appends.  When concurrent inserts of distinct keys, some
\* into the same bucket, have all completed, in whatever order, list() yields
\* each inserted key exactly once and metadata(K) finds each of them.
C11_RacingAppends ==
    RaceOver =>
        /\ ~ListSync(index).err
        /\ \A p \in Procs :
             /\ Cardinality({e \in ListSync(index).items : e.key = RaceKey(p)}) = 1
             /\ MetadataSync(index, RaceKey(p)).found
        /\ \A e \in ListSync(index).items : \E p \in Procs : e.key = RaceKey(p)

\* C11 witness: all inserts have completed and a bucket holds the records of
\* two keys, appended in the order opposite to that of the callers
C11_Witness ==
    /\ RaceOver
    /\ BucketOf("a") \in DOMAIN index
    /\ Len(index[BucketOf("a")]) >= 2
    /\ index[BucketOf("a")][1].key = "b"
    /\ index[BucketOf("a")][2].key = "a"

\* the valid records of `key` in its bucket, as positions
RecordsOf(idx, key) ==
    IF BucketOf(key) \notin DOMAIN idx THEN {}
    ELSE {i \in 1..Len(idx[BucketOf(key)]) :
            idx[BucketOf(key)][i].valid /\ idx[BucketOf(key)][i].key = key}

\* no valid record of the key beats record i: none has a greater time, and
\* none of the same time stands later in the file
Unbeaten(idx, key, i) ==
    LET lines == idx[BucketOf(key)]
    IN  \A j \in RecordsOf(idx, key) :
           /\ lines[j].time <= lines[i].time
           /\ lines[j].time = lines[i].time => j <= i

C13_DamageIsLocal ==
    [][(Intact(index) /\ ~Intact(index')) =>
         /\ ~ListSync(index').err
         /\ \A k \in IdxKeys :
              RecordsOf(index', k) = RecordsOf(index, k) =>
                 /\ MetadataSync(index', k) = MetadataSync(index, k)
                 /\ ReadSync(content', index', k) = ReadSync(content, index, k)
                 /\ {e \in ListSync(index').items : e.key = k}
                      = {e \in ListSync(index).items : e.key = k}]_vars

\* C13 witness: a line of key "a" is damaged and key "b", whose record stands
\* in the same bucket, is found and read
C13_Witness ==
    /\ ~Intact(index)
    /\ ret.op = "external"
    /\ ret.key = "a"
    /\ MetadataSync(index, "b").found
    /\ ReadSync(content, index, "b").kind = "Ok"

\* C15: list() on a root without an index directory, whether nothing was
\* ever written or clear() has just emptied it, yields an error item, so
\* collecting it fails.
C15_ListWithoutIndex ==
    /\ index = NoBuckets => ListSync(index).err
    /\ (ret.op = "list" /\ index = NoBuckets) => ret.kind = "Err"

\* C15 witness: list() was collected on a root that clear() had emptied of
\* what had been written, and failed
C15_Witness ==
    /\ ret.op = "list"
    /\ ret.kind = "Err"
    /\ index = NoBuckets
    /\ hist # {}

\* C19: rename-collision handling.  When the rename of the staged file fails,
\* close succeeds exactly if a file exists at the destination at that moment;
\* otherwise the error it returns is the rename's own; either way the
\* staged file is gone from tmp/.
C19_CloseOnCollision ==
    [][\A p \in Procs :
         (procs[p].pc = "metadata" /\ procs'[p].pc # "metadata") =>
            /\ procs'[p].pc = "insert"
                 <=> HasFile(content, ContentPath(WriterSri(procs[p].wr)))
            /\ procs'[p].pc = "done" =>
                 /\ procs'[p].ret.kind = "Io"
                 /\ procs'[p].err = "persist"
            /\ ~procs'[p].wr.linked]_vars

\* the step is a keyed commit of a writer opened with an expected integrity,
\* and it returned Ok
KeyedCommitWithExpected ==
    /\ w.open /\ ~w'.open
    /\ ret'.op = "commit" /\ ret'.kind = "Ok"
    /\ w.key \in Keys
    /\ w.sri # NoSri

\* the descriptor of the record appended last to the key's bucket
RecordedSri(idx, key) == idx[BucketOf(key)][Len(idx[BucketOf(key)])].integrity

\* C21: a keyed commit that succeeds with WriteOpts::integrity(E) records a
\* descriptor under which the content was stored: exists(recorded sri) is
\* true, and read(key) returns the bytes written (for a key whose new record
\* is not shadowed by an earlier one, so that the lookup is not in question).
C21_RecordedSriIsStored ==
    [][KeyedCommitWithExpected =>
         /\ ExistsSync(content', RecordedSri(index', w.key))
         /\ ~Shadowed(index', w.key) =>
              ReadSync(content', index', w.key).kind = "Ok"
              /\ ReadSync(content', index', w.key).data = w.hashed]_vars

\* the step is check() on an open streaming reader
CheckStep == rd.open /\ ret'.op = "check"

\* C22: streaming reader verification.  check() returns Ok only if the bytes
\* handed out so far hash to the expected descriptor; check() before the
\* reader has reached the end of the file is never accepted; and after the
\* file was read to its end check() fails with IntegrityMismatch exactly if
\* the file's bytes are not the content the descriptor names.
C22_StreamingCheck ==
    [][CheckStep =>
         /\ ret'.kind = "Ok" => HashesTo(rd.fed, rd.sri)
         /\ rd.pos < Len(rd.file) => ret'.kind # "Ok"
         /\ rd.pos = Len(rd.file) =>
              (ret'.kind = "IntegrityMismatch" <=> ~HashesTo(rd.file, rd.sri))]_vars

\* C23: verified copy.  Whenever copy(key, dst) or copy_hash(sri, dst) has
\* returned Ok(n), the destination file holds exactly n bytes and they hash
\* to sri, whatever writers, removers and outside modification did to the
\* content path between the file copy and the verifying re-read; and a copy
\* that has returned IntegrityMismatch leaves no unverified bytes at dst.
C23_VerifiedCopy ==
    cp.pc = "done" =>
        /\ cp.kind = "Ok" =>
             /\ dst.exists
             /\ Len(dst.data) = cp.n
             /\ HashesTo(dst.data, cp.sri)
        /\ cp.kind = "IntegrityMismatch" =>
             (~dst.exists \/ HashesTo(dst.data, cp.sri))

\* exists(sri) is true exactly when a file is present at the derived path
ExistsIsPresence ==
    \A sri \in ProbeSris :
        ExistsSync(content, sri) <=> HasFile(content, ContentPath(sri))

\* the step truncates, to half its length, the content file of the descriptor
\* that write(K, B) has just returned
TruncateAfterWrite ==
    /\ ret.op = "write" /\ ret.kind = "Ok"
    /\ ret'.op = "truncate" /\ ret'.sri = ret.sri

\* what C24 promises about the state after that step
C24_Post ==
    /\ ReadHashSync(content', ret.sri).kind = "IntegrityMismatch"
    /\ ReadSync(content', index', ret.key).kind = "IntegrityMismatch"
    /\ ExistsSync(content', ret.sri)

\* C24 as written: exists(sri) is true exactly when a file is present at the
\* path derived from sri, and after a successful write followed by truncation
\* of the content file to half its length read fails with IntegrityMismatch
\* while exists(sri) is still true.
C24_AsWritten ==
    []ExistsIsPresence /\ [][TruncateAfterWrite => C24_Post]_vars

\* C24: exists does not verify.  As above, for a write of at least one byte:
\* half the length of an empty file is its whole length, the truncation
\* leaves it as it was, and read succeeds.
C24_ExistsUnverified ==
    []ExistsIsPresence
    /\ [][(TruncateAfterWrite /\ Len(ret.data) > 0) => C24_Post]_vars

\* C24 witness: the content file of a written descriptor was truncated to
\* half its non-zero length; exists is true of it and reading it fails with
\* IntegrityMismatch
C24_Witness ==
    /\ ret.op = "truncate"
    /\ Len(ret.data) > 0
    /\ ret.b < Len(ret.data)
    /\ \E h \in hist :
         /\ h.sri = ret.sri
         /\ ExistsSync(content, h.sri)
         /\ ReadHashSync(content, h.sri).kind = "IntegrityMismatch"
         /\ ReadSync(content, index, h.key).kind = "IntegrityMismatch"

\* the step is write_hash, or the commit of a writer opened with open_hash
HashWriteStep ==
    /\ now' = now
    /\ \/ ret'.op = "write_hash" /\ calls' = calls + 1
       \/ w.open /\ ~w'.open /\ ret'.op = "commit" /\ w.key = NoKey

\* the step is write(K, ..), or the commit of a writer opened with open(K)
KeyedWriteStep ==
    /\ now' = now
    /\ \/ ret'.op = "write" /\ calls' = calls + 1
       \/ w.open /\ ~w'.open /\ ret'.op = "commit" /\ w.key \in Keys

\* the step is a call that neither writes nor removes
QuietStep ==
    /\ now' = now
    /\ ret' # ret
    /\ ret'.op \in {"opts", "open", "writer.write", "drop", "read", "read_hash",
                    "metadata", "exists"}

\* idx2 is idx with exactly one record, of `key`, appended to the key's bucket
AppendedOne(idx, idx2, key) ==
    LET b   == BucketOf(key)
        old == IF b \in DOMAIN idx THEN idx[b] ELSE <<>>
    IN  /\ DOMAIN idx2 = DOMAIN idx \cup {b}
        /\ \A x \in DOMAIN idx \ {b} : idx2[x] = idx[x]
        /\ Len(idx2[b]) = Len(old) + 1
        /\ SubSeq(idx2[b], 1, Len(old)) = old
        /\ idx2[b][Len(old) + 1].key = key
        /\ idx2[b][Len(old) + 1].integrity # NoSri

C26_MmapEquivalent ==
    tw.open =>
        /\ tw.mres = tw.fres
        /\ tw.mout = tw.fout

\* C27: atomic visibility of content.  With writers and readers only, in
\* whatever order their calls and the steps of a streaming writer are taken,
\* a file at a content path is never a partially written one: read_hash(sri)
\* either fails with a not-found I/O error or returns the complete bytes
\* named by sri.
C27_AtomicVisibility ==
    \A sri \in ProbeSris :
        LET r == ReadHashSync(content, sri)
        IN  \/ r.kind = "Io"
            \/ r.kind = "Ok" /\ HashesTo(r.data, sri)

====
